---- MODULE Spec2Model ----
(***************************************************************************)
(* Model of claimcoins.py: the per-account pipeline login_and_claim        *)
(* (login -> fetch daily info -> claim complete tiers) and the batch       *)
(* orchestrator main (ThreadPoolExecutor + as_completed + report).         *)
(*                                                                         *)
(* Three specifications share the same actions:                              *)
(*   Spec     one account against the full repertoire of remote responses  *)
(*   SpecRun  NumAccounts accounts on a pool of MaxWorkers threads against *)
(*            a reduced repertoire of remote responses                     *)
(*   SpecErr  two accounts on that pool against a repertoire holding every *)
(*            kind of error of every stage                                 *)
(***************************************************************************)
EXTENDS Integers, Sequences, FiniteSets, TLC

\* ---------------------------------------------------------------- bounds
NumAccounts == 3      \* length of the credentials list in SpecRun
MaxWorkers  == 2      \* args.threads, the pool size
MaxTiers    == 2      \* longest tier list the remote service returns

Workers  == 1..MaxWorkers
TierIds  == {1, 2}     \* the tier ids (workInfoReadingNum) the service uses

\* ------------------------------------------------------- python / JSON values
\* Python's None (also what dict.get returns for an absent key).
None == "<None>"

\* Truthiness of the values token / tokenHead can take ("not x").
Falsy(x) == x \in {None, ""}

\* str(x) for the values sysUserId can take: str(None) is the text "None".
Str(x) == IF x = None THEN "None" ELSE x

\* One element of memberReadingRewardDetailVoList. dict = FALSE is an element
\* that is not a JSON object (it has no .get).
Tier(status, num) == [dict |-> TRUE, status |-> status, num |-> num]
BadTier == [dict |-> FALSE, status |-> None, num |-> 0]
TierValues == {BadTier} \cup {Tier(s, n) : s \in {"complete", "pending"}, n \in TierIds}

RECURSIVE SeqsUpTo(_, _)
SeqsUpTo(S, n) ==
    IF n = 0 THEN {<<>>}
    ELSE LET shorter == SeqsUpTo(S, n - 1)
         IN  shorter \cup {Append(s, x) : s \in {t \in shorter : Len(t) = n - 1}, x \in S}

\* A decoded JSON value, as far as the program looks into it.
\*   kind    "dict" | "nondict" (list, string, number, null: no .get)
\*   raw     the value under the key "_raw" (safe_json's fallback), None
\*           when the key is absent
\*   result  "absent" | "nondict" | "dict"         (the "result" key)
\*   token, tokenHead, sysUserId                    (None when absent)
\*   list    "absent" | "null" | "list"             (memberReadingRewardDetailVoList)
\*   tiers   the elements when list = "list"
Json(kind, raw, result, token, head, uid, list, tiers) ==
    [kind |-> kind, raw |-> raw, result |-> result, token |-> token,
     tokenHead |-> head, sysUserId |-> uid, list |-> list, tiers |-> tiers]

NonDict      == Json("nondict", None, "absent", None, None, None, "absent", <<>>)
RawFallback(text) == Json("dict", text, "absent", None, None, None, "absent", <<>>)
EmptyDict    == Json("dict", None, "absent", None, None, None, "absent", <<>>)
ResultNoDict == Json("dict", None, "nondict", None, None, None, "absent", <<>>)
LoginResult(token, head, uid) ==
    Json("dict", None, "dict", token, head, uid, "absent", <<>>)
InfoNoList   == Json("dict", None, "dict", None, None, None, "absent", <<>>)
InfoNullList == Json("dict", None, "dict", None, None, None, "null", <<>>)
InfoList(ts) == Json("dict", None, "dict", None, None, None, "list", ts)

\* ------------------------------------------------------------ HTTP results
\* What sess.post(...) does: it raises (transport error, timeout, retries
\* exhausted) or returns a response with a status code and a body text that
\* is valid JSON (json = TRUE, value = the decoded value) or is not (the
\* text is then an HTML page).
JsonText == "{...}"
HtmlText == "<html>"
Raised == [raised |-> TRUE, status |-> 0, json |-> FALSE, value |-> NonDict,
           text |-> ""]
Resp(status, json, value) ==
    [raised |-> FALSE, status |-> status, json |-> json, value |-> value,
     text |-> IF json THEN JsonText ELSE HtmlText]
NotJson(status) == Resp(status, FALSE, NonDict)

\* Status codes a response can carry (one per class the code distinguishes
\* or the documentation names: 2xx, 3xx, 4xx).
StatusCodes == {200, 304, 404}

\* requests.Response.raise_for_status: HTTPError iff 400 <= status < 600.
RaisesForStatus(status) == status >= 400 /\ status < 600

Is2xx(status) == status >= 200 /\ status < 300

\* Mutation of safe_json: the fallback does not carry the body text.
safe_jsonEmpty(resp) == IF resp.json THEN resp.value ELSE EmptyDict

\* safe_json(resp): resp.json(), and {"_raw": resp.text} when that raises
safe_json(resp) == IF resp.json THEN resp.value ELSE RawFallback(resp.text)

\* ------------------------------------------------ the remote service's replies
\* A repertoire is the set of results each of the three endpoints may give.
LoginBodies ==
    {NonDict, EmptyDict, ResultNoDict}
    \cup {LoginResult(t, h, u) : t \in {None, "", "tk"}, h \in {None, "Bearer"},
                                 u \in {None, "7"}}

InfoBodies ==
    {NonDict, EmptyDict, ResultNoDict, InfoNoList, InfoNullList}
    \cup {InfoList(ts) : ts \in SeqsUpTo(TierValues, MaxTiers)}

ClaimBodies == {EmptyDict}

Replies(bodies) ==
    {Raised} \cup {NotJson(s) : s \in StatusCodes}
             \cup {Resp(s, TRUE, v) : s \in StatusCodes, v \in bodies}

FullService ==
    [login |-> Replies(LoginBodies), info |-> Replies(InfoBodies),
     claim |-> Replies(ClaimBodies)]

\* The reduced repertoire of SpecRun: each stage can fail or succeed, and the
\* tier list is two complete tiers.
AllComplete == <<Tier("complete", 1), Tier("complete", 2)>>

RunService ==
    [login |-> {Raised, Resp(200, TRUE, LoginResult("tk", "Bearer", "7"))},
     info  |-> {Resp(404, TRUE, EmptyDict), Resp(200, TRUE, InfoList(AllComplete))},
     claim |-> {Raised, Resp(200, TRUE, EmptyDict)}]

\* The repertoire of SpecErr: every kind of error of every stage, once, and
\* two logins that succeed with different tokens and member ids.
GoodLogin  == Resp(200, TRUE, LoginResult("tk", "Bearer", "7"))
OtherLogin == Resp(200, TRUE, LoginResult("tk2", "Bearer", "8"))

ErrorService ==
    [login |-> {Raised, NotJson(200), GoodLogin, OtherLogin,
                Resp(404, TRUE, LoginResult("tk", "Bearer", "7")),
                Resp(200, TRUE, LoginResult(None, "Bearer", "7"))},
     info  |-> {Raised, NotJson(200),
                Resp(404, TRUE, EmptyDict),
                Resp(200, TRUE, InfoNullList),
                Resp(200, TRUE, InfoList(<<Tier("complete", 1), BadTier>>)),
                Resp(200, TRUE, InfoList(AllComplete))},
     claim |-> {Raised, NotJson(200), Resp(404, TRUE, EmptyDict),
                Resp(200, TRUE, EmptyDict)}]

\* The repertoire named by the variable service.
Repertoire(name) ==
    IF name = "full" THEN FullService
    ELSE IF name = "errors" THEN ErrorService
    ELSE RunService

\* ------------------------------------------------------- login_and_claim state
\* The keys of the outcome dict that are not there from the start.
OptionalKeys == {"login_status_code", "login_response", "info_status_code",
                 "info_response", "claim_responses", "claimed_tiers"}

\* out = {"phone": phone, "ts": ..., "errors": []}; has = the optional keys set.
NewOut(phone) ==
    [phone |-> phone, has |-> {}, errors |-> <<>>,
     login_status_code |-> 0, login_response |-> NonDict,
     info_status_code |-> 0, info_response |-> NonDict,
     claim_responses |-> <<>>, claimed_tiers |-> <<>>]

\* An entry of out["errors"]; claim errors carry a "response" key.
ErrorRecord(stage, error) ==
    [stage |-> stage, error |-> error, has_response |-> FALSE, response |-> NonDict]
ErrorRecordWith(stage, error, response) ==
    [stage |-> stage, error |-> error, has_response |-> TRUE, response |-> response]

AddError(o, e) == [o EXCEPT !.errors = Append(@, e)]

\* An entry of out["claim_responses"].
ClaimRecord(num, status, response) ==
    [tier |-> num, status_code |-> status, response |-> response]

\* The run configuration main builds from the command line (class C, with the
\* defaults) and hands to every pipeline.
DEFAULT_SALES_ID == "232"
Config == [sales_id |-> DEFAULT_SALES_ID, password |-> "password"]

\* make_session(cfg): a new session with the default headers.
make_session(c) ==
    [salesPersonId |-> c.sales_id, Authorization |-> None, memberInfoId |-> None]

\* One request as the remote side sees it (the headers it carried, the status
\* it was answered with, 0 when post raised), or one pause (op = "sleep").
Call(op, num, sess, r) ==
    [op |-> op, tier |-> num, Authorization |-> sess.Authorization,
     memberInfoId |-> sess.memberInfoId, status |-> r.status]

\* The frame of one login_and_claim(cred, cfg) execution.
\*   pc         "idle" (not started) | "login" | "info" | "claim" | "sleep" |
\*              "done" (returned out) | "raised" (left by an exception)
\*   r          the response of the latest login or info post that returned
\*   rr_bound   whether the local rr has been assigned
\*   calls      the HTTP calls ("login", "info", "claim") and pauses ("sleep")
\*              performed so far, in order
IdleFrame ==
    [pc |-> "idle", out |-> NewOut(0), sess |-> make_session(Config), tiers |-> <<>>,
     idx |-> 0, r |-> Raised, rr_bound |-> FALSE, rr |-> Raised, completed |-> <<>>,
     calls |-> <<>>]

\* lines 110-113
StartFrame(phone, c) ==
    [IdleFrame EXCEPT !.pc = "login", !.out = NewOut(phone), !.sess = make_session(c)]

\* ----------------------------------------------------------- stage 1: login
\* The exception lines 118-130 raise for the reply r, None if they raise none.
LoginException(r) ==
    LET body == safe_json(r)
    IN  IF r.raised THEN "ConnectionError"                       \* line 118
        ELSE IF RaisesForStatus(r.status) THEN "HTTPError"       \* line 121
        ELSE IF body.kind # "dict" THEN "AttributeError"         \* line 122
        ELSE IF body.result = "nondict" THEN "AttributeError"    \* line 122
        ELSE IF Falsy(body.token) \/ Falsy(body.tokenHead)       \* line 125
             THEN "ValueError"
        ELSE None

\* lines 119-120: status code and decoded body are stored once post returned
RecordLogin(o, r) ==
    IF r.raised THEN o
    ELSE [o EXCEPT !.has = @ \cup {"login_status_code", "login_response"},
                   !.login_status_code = r.status,
                   !.login_response = safe_json(r)]

\* Mutation of Authorize: the headers of one fixed login are attached, whatever
\* this account's login returned.
AuthorizeFixed(sess, body) ==
    [sess EXCEPT !.Authorization = "Bearer tk", !.memberInfoId = "7"]

\* lines 127-130
Authorize(sess, body) ==
    [sess EXCEPT !.Authorization = body.tokenHead \o " " \o body.token,
                 !.memberInfoId = Str(body.sysUserId)]

\* Mutation of CatchLogin: the return of line 134 is missing.
CatchLoginNoReturn(f, e) ==
    [f EXCEPT !.pc = "info", !.out = AddError(@, ErrorRecord("login", e))]

\* lines 131-134: except Exception of stage 1
CatchLogin(f, e) ==
    [f EXCEPT !.pc = "done", !.out = AddError(@, ErrorRecord("login", e))]

\* lines 115-134
LoginStep(f, r) ==
    LET e == LoginException(r)
        g == [f EXCEPT !.calls = Append(@, Call("login", 0, f.sess, r)),
                       !.r = IF r.raised THEN @ ELSE r,
                       !.out = RecordLogin(@, r)]
    IN  IF e # None
        THEN CatchLogin(g, e)
        ELSE [g EXCEPT !.pc = "info", !.sess = Authorize(@, safe_json(r))]

\* ------------------------------------------------- stage 3: the loop over tiers
\* Mutation of IsComplete: the status is tested for truth, not for "complete".
IsCompleteTruthy(tier) == ~Falsy(tier.status)

\* line 153
IsComplete(tier) == tier.status = "complete"

\* line 151: the exception it raises, None if none
TiersException(info) ==
    IF info.kind # "dict" THEN "AttributeError"
    ELSE IF info.result = "nondict" THEN "AttributeError"
    ELSE None

\* Mutation of TiersOf: the list is walked from its end.
TiersOfReversed(info) ==
    IF info.list = "list"
    THEN [i \in 1..Len(info.tiers) |-> info.tiers[Len(info.tiers) + 1 - i]]
    ELSE <<>>

\* line 151: info.get("result", {}).get("memberReadingRewardDetailVoList", [])
\* (a JSON null is returned as it is; iterating it is a TypeError at line 152)
TiersOf(info) == IF info.list = "list" THEN info.tiers ELSE <<>>

\* Mutation of CatchLoop: the exception is not caught and leaves the function.
CatchLoopReraise(f, e) == [f EXCEPT !.pc = "raised"]

\* Mutation of CatchLoop: the handler starts the claim records afresh.
CatchLoopDiscard(f, e) ==
    [f EXCEPT !.pc = "done",
              !.out = AddError([@ EXCEPT !.has = @ \ {"claim_responses"},
                                         !.claim_responses = <<>>],
                               ErrorRecord("claim_loop", e))]

\* lines 174-177: except Exception around the whole of stage 3
CatchLoop(f, e) ==
    [f EXCEPT !.pc = "done", !.out = AddError(@, ErrorRecord("claim_loop", e))]

\* line 173, then 177
FinishLoop(f) ==
    [f EXCEPT !.pc = "done",
              !.out = [@ EXCEPT !.has = @ \cup {"claimed_tiers"},
                                !.claimed_tiers = f.completed]]

\* Mutation of LoopFrom: line 172 is outside the if of line 153, so the loop
\* pauses at every element.
LoopFromPauseAll(f, i) ==
    IF i > Len(f.tiers) THEN FinishLoop([f EXCEPT !.idx = i])
    ELSE IF ~f.tiers[i].dict THEN CatchLoop([f EXCEPT !.idx = i], "AttributeError")
    ELSE IF IsComplete(f.tiers[i]) THEN [f EXCEPT !.pc = "claim", !.idx = i]
    ELSE [f EXCEPT !.pc = "sleep", !.idx = i]

\* lines 152-154 and 173-176: run the for loop from element i up to the next
\* claim call, the end of the list, or an exception
RECURSIVE LoopFrom(_, _)
LoopFrom(f, i) ==
    IF i > Len(f.tiers) THEN FinishLoop([f EXCEPT !.idx = i])
    ELSE IF ~f.tiers[i].dict THEN CatchLoop([f EXCEPT !.idx = i], "AttributeError")
    ELSE IF IsComplete(f.tiers[i]) THEN [f EXCEPT !.pc = "claim", !.idx = i]
    ELSE LoopFrom(f, i + 1)

\* Mutation of EnterLoop: the two .get of line 151 have no default, so an
\* absent result or list is None and iterating it raises.
EnterLoopNoDefault(f, info) ==
    IF TiersException(info) # None THEN CatchLoop(f, TiersException(info))
    ELSE IF info.list # "list" THEN CatchLoop(f, "TypeError")
    ELSE LoopFrom([f EXCEPT !.tiers = TiersOf(info), !.completed = <<>>], 1)

\* lines 149-152: completed = [], the tier list, entering the loop
EnterLoop(f, info) ==
    IF TiersException(info) # None THEN CatchLoop(f, TiersException(info))
    ELSE IF info.list = "null" THEN CatchLoop(f, "TypeError")
    ELSE LoopFrom([f EXCEPT !.tiers = TiersOf(info), !.completed = <<>>], 1)

\* ------------------------------------------------------ stage 2: fetch info
\* Mutation of InfoException: line 142 (raise_for_status) is missing.
InfoExceptionNoStatus(r) == IF r.raised THEN "ConnectionError" ELSE None

\* The exception lines 138-142 raise for the reply r, None if they raise none.
InfoException(r) ==
    IF r.raised THEN "ConnectionError"                           \* line 138
    ELSE IF RaisesForStatus(r.status) THEN "HTTPError"           \* line 142
    ELSE None

\* lines 139-141
RecordInfo(o, r) ==
    IF r.raised THEN o
    ELSE [o EXCEPT !.has = @ \cup {"info_status_code", "info_response"},
                   !.info_status_code = r.status,
                   !.info_response = safe_json(r)]

\* lines 143-146: except Exception of stage 2
CatchInfo(f, e) ==
    [f EXCEPT !.pc = "done", !.out = AddError(@, ErrorRecord("fetch_info", e))]

\* lines 137-152
InfoStep(f, r) ==
    LET e == InfoException(r)
        g == [f EXCEPT !.calls = Append(@, Call("info", 0, f.sess, r)),
                       !.r = IF r.raised THEN @ ELSE r,
                       !.out = RecordInfo(@, r)]
    IN  IF e # None THEN CatchInfo(g, e) ELSE EnterLoop(g, safe_json(r))

\* ------------------------------------------------------- stage 3: one claim
\* line 167
ClaimStage(num) == "claim_" \o ToString(num)

\* Mutation of ClaimStep: the attempt is recorded after raise_for_status,
\* so only for a call that succeeded.
ClaimStepRecordLate(f, r) ==
    LET num == f.tiers[f.idx].num
        g   == [f EXCEPT !.calls = Append(@, Call("claim", num, f.sess, r))]
    IN  IF r.raised
        THEN IF ~f.rr_bound
             THEN CatchLoop(g, "UnboundLocalError")
             ELSE [g EXCEPT !.pc = "sleep",
                            !.out = AddError(@, ErrorRecordWith(ClaimStage(num),
                                                 "ConnectionError", safe_json(f.rr)))]
        ELSE LET h == [g EXCEPT !.rr_bound = TRUE, !.rr = r, !.pc = "sleep"]
             IN  IF RaisesForStatus(r.status)
                 THEN [h EXCEPT !.out = AddError(@, ErrorRecordWith(ClaimStage(num),
                                                     "HTTPError", safe_json(r)))]
                 ELSE [h EXCEPT !.completed = Append(@, num),
                                !.out = [@ EXCEPT
                                   !.has = @ \cup {"claim_responses"},
                                   !.claim_responses =
                                       Append(@, ClaimRecord(num, r.status, safe_json(r)))]]

\* lines 154-171 for the tier at f.idx and the reply r
ClaimStep(f, r) ==
    LET num == f.tiers[f.idx].num
        g   == [f EXCEPT !.calls = Append(@, Call("claim", num, f.sess, r))]
    IN  IF r.raised
        THEN IF ~f.rr_bound
             \* line 170 reads the unassigned local rr: UnboundLocalError leaves
             \* the handler and the loop, and is caught at line 174
             THEN CatchLoop(g, "UnboundLocalError")
             \* line 170 reads the rr of the latest call that returned
             ELSE [g EXCEPT !.pc = "sleep",
                            !.out = AddError(@, ErrorRecordWith(ClaimStage(num),
                                                 "ConnectionError", safe_json(f.rr)))]
        ELSE LET h == [g EXCEPT !.rr_bound = TRUE, !.rr = r, !.pc = "sleep",
                                !.out = [@ EXCEPT
                                   !.has = @ \cup {"claim_responses"},
                                   !.claim_responses =
                                       Append(@, ClaimRecord(num, r.status, safe_json(r)))]]
             IN  IF RaisesForStatus(r.status)
                 THEN [h EXCEPT !.out = AddError(@, ErrorRecordWith(ClaimStage(num),
                                                     "HTTPError", safe_json(r)))]
                 ELSE [h EXCEPT !.completed = Append(@, num)]

\* Mutation of SleepStep: the pause never ends.
SleepStepForever(f) == f

\* line 172, then the loop goes on with the next element
SleepStep(f) ==
    LoopFrom([f EXCEPT !.calls = Append(@, Call("sleep", f.tiers[f.idx].num, f.sess, Raised))],
             f.idx + 1)

\* ------------------------------------------------------------------ state
VARIABLES
    cfg,          \* the run configuration shared by all pipelines
    service,      \* the repertoire of the remote service in this run:
                  \* "full" | "errors" | "reduced"
    credentials,  \* the list of accounts (phones) main runs over
    mainpc,       \* main: "submit" | "collect" | "done" | "crashed"
    nsub,         \* number of exe.submit calls made (line 203)
    queue,        \* the executor's work queue
    worker,       \* worker thread -> the account it runs, 0 when it has none
    fut,          \* account -> state of its future
    early,        \* futures as_completed found finished when it was called
    waiter,       \* futures finished since, in completion order
    results,      \* line 201
    report,       \* the content written to OUT_FILE
    writes,       \* number of times OUT_FILE was written
    frame,        \* account -> its login_and_claim frame
    completion    \* the accounts whose future is finished, in finishing order

vars == <<cfg, service, credentials, mainpc, nsub, queue, worker, fut, early, waiter,
          results, report, writes, frame, completion>>

\* The accounts of the run, named by their phone.
Accounts == DOMAIN frame

InitWith(svc, creds) ==
    /\ cfg = Config
    /\ service = svc
    /\ credentials = creds
    /\ mainpc = "submit"
    /\ nsub = 0
    /\ queue = <<>>
    /\ worker = [w \in Workers |-> 0]
    /\ fut = [a \in 1..Len(creds) |-> "none"]
    /\ early = {}
    /\ waiter = <<>>
    /\ results = <<>>
    /\ report = <<>>
    /\ writes = 0
    /\ frame = [a \in 1..Len(creds) |-> IdleFrame]
    /\ completion = <<>>

Init == InitWith("full", <<1>>)

InitRun == InitWith("reduced", [i \in 1..NumAccounts |-> i])

InitErr == InitWith("errors", <<1, 2>>)

\* ------------------------------------------------------------ main, the pool
\* line 203: one exe.submit(login_and_claim, c, C)
Submit ==
    /\ mainpc = "submit"
    /\ nsub < Len(credentials)
    /\ nsub' = nsub + 1
    /\ queue' = Append(queue, credentials[nsub + 1])
    /\ fut' = [fut EXCEPT ![credentials[nsub + 1]] = "pending"]
    /\ UNCHANGED <<cfg, completion, service, credentials, mainpc, worker, early, waiter, results,
                   report, writes, frame>>

\* line 204: as_completed(futures) is entered; the futures already finished are
\* set aside, the others will be queued on the waiter as they finish
AsCompleted ==
    /\ mainpc = "submit"
    /\ nsub = Len(credentials)
    /\ mainpc' = "collect"
    /\ early' = {a \in Accounts : fut[a] = "finished"}
    /\ UNCHANGED <<cfg, completion, service, credentials, nsub, queue, worker, fut, waiter, results,
                   report, writes, frame>>

\* Mutation of CanTake: a work item is started on a thread that is still busy.
CanTakeBusy(w) == queue # <<>>

\* A free worker thread of the pool may take the next work item. The threads
\* of the pool are interchangeable: of the free ones the first takes it.
CanTake(w) ==
    /\ worker[w] = 0
    /\ queue # <<>>
    /\ \A v \in Workers : v < w => worker[v] # 0

\* A worker thread takes the oldest work item and enters login_and_claim
\* (lines 110-113).
Take(w) ==
    /\ CanTake(w)
    /\ worker' = [worker EXCEPT ![w] = Head(queue)]
    /\ queue' = Tail(queue)
    /\ fut' = [fut EXCEPT ![Head(queue)] = "running"]
    /\ frame' = [frame EXCEPT ![Head(queue)] = StartFrame(Head(queue), cfg)]
    /\ UNCHANGED <<cfg, completion, service, credentials, mainpc, nsub, early, waiter, results,
                   report, writes>>

\* login_and_claim has left (returned or raised)
Left(f) == f.pc \in {"done", "raised"}

\* Mutation of Proceed: the waiter keeps the finished futures newest first.
ProceedNewestFirst(w, g) ==
    /\ frame' = [frame EXCEPT ![worker[w]] = g]
    /\ worker' = IF Left(g) THEN [worker EXCEPT ![w] = 0] ELSE worker
    /\ fut' = IF Left(g) THEN [fut EXCEPT ![worker[w]] = "finished"] ELSE fut
    /\ waiter' = IF Left(g) /\ mainpc = "collect" THEN <<worker[w]>> \o waiter
                 ELSE waiter
    /\ completion' = IF Left(g) THEN Append(completion, worker[w]) ELSE completion
    /\ UNCHANGED <<cfg, service, credentials, mainpc, nsub, queue, early, results,
                   report, writes>>

\* Worker w's frame becomes g; when login_and_claim has left, the future is
\* finished, the waiter of as_completed is told and the worker is free.
Proceed(w, g) ==
    /\ frame' = [frame EXCEPT ![worker[w]] = g]
    /\ worker' = IF Left(g) THEN [worker EXCEPT ![w] = 0] ELSE worker
    /\ fut' = IF Left(g) THEN [fut EXCEPT ![worker[w]] = "finished"] ELSE fut
    /\ waiter' = IF Left(g) /\ mainpc = "collect" THEN Append(waiter, worker[w])
                 ELSE waiter
    /\ completion' = IF Left(g) THEN Append(completion, worker[w]) ELSE completion
    /\ UNCHANGED <<cfg, service, credentials, mainpc, nsub, queue, early, results,
                   report, writes>>

At(w, pc) == worker[w] # 0 /\ frame[worker[w]].pc = pc

Login(w) ==
    /\ At(w, "login")
    /\ \E r \in Repertoire(service).login : Proceed(w, LoginStep(frame[worker[w]], r))

FetchInfo(w) ==
    /\ At(w, "info")
    /\ \E r \in Repertoire(service).info : Proceed(w, InfoStep(frame[worker[w]], r))

Claim(w) ==
    /\ At(w, "claim")
    /\ \E r \in Repertoire(service).claim : Proceed(w, ClaimStep(frame[worker[w]], r))

Sleep(w) ==
    /\ At(w, "sleep")
    /\ Proceed(w, SleepStep(frame[worker[w]]))

\* The future as_completed yields next: any of those found finished at its
\* call, then the others in the order they finished.
Yieldable == IF early # {} THEN early
             ELSE IF waiter # <<>> THEN {Head(waiter)} ELSE {}

\* lines 204-218 for one future: fut.result() returns the outcome, or raises
\* what login_and_claim raised
Collect ==
    /\ mainpc = "collect"
    /\ \E a \in Yieldable :
         /\ early' = early \ {a}
         /\ waiter' = IF early # {} THEN waiter ELSE Tail(waiter)
         /\ mainpc' = IF frame[a].pc = "raised" THEN "crashed" ELSE mainpc
         /\ results' = IF frame[a].pc = "raised" THEN results
                       ELSE Append(results, frame[a].out)
    /\ UNCHANGED <<cfg, completion, service, credentials, nsub, queue, worker, fut, report, writes,
                   frame>>

\* Mutation of WriteReport: line 220 indented into the for loop of line 204.
WriteReportInLoop ==
    /\ mainpc = "collect"
    /\ Len(results) > writes
    /\ report' = results
    /\ writes' = writes + 1
    /\ mainpc' = IF Yieldable = {} /\ \A a \in Accounts : fut[a] \in {"none", "finished"}
                 THEN "done" ELSE mainpc
    /\ UNCHANGED <<cfg, completion, service, credentials, nsub, queue, worker, fut, early, waiter,
                   results, frame>>

\* line 220, once as_completed is exhausted and the pool has shut down
WriteReport ==
    /\ mainpc = "collect"
    /\ Yieldable = {}
    /\ \A a \in Accounts : fut[a] \in {"none", "finished"}
    /\ mainpc' = "done"
    /\ report' = results
    /\ writes' = writes + 1
    /\ UNCHANGED <<cfg, completion, service, credentials, nsub, queue, worker, fut, early, waiter,
                   results, frame>>

Next ==
    \/ Submit
    \/ AsCompleted
    \/ \E w \in Workers : Take(w)
    \/ \E w \in Workers : Login(w)
    \/ \E w \in Workers : FetchInfo(w)
    \/ \E w \in Workers : Claim(w)
    \/ \E w \in Workers : Sleep(w)
    \/ Collect
    \/ WriteReport

Spec == Init /\ [][Next]_vars

SpecRun == InitRun /\ [][Next]_vars

SpecErr == InitErr /\ [][Next]_vars

\* The steps of the main thread and of worker thread w.
MainStep == Submit \/ AsCompleted \/ Collect \/ WriteReport
WorkerStep(w) == Take(w) \/ Login(w) \/ FetchInfo(w) \/ Claim(w) \/ Sleep(w)

\* Every thread that can take a step eventually takes one: the main thread
\* and the pool's threads are scheduled, every sess.post returns or raises
\* within its timeout (line 118, 138, 156) and every time.sleep ends.
Fairness == WF_vars(MainStep) /\ \A w \in Workers : WF_vars(WorkerStep(w))

\* The run of SpecErr under fair scheduling.
SpecLive == InitErr /\ [][Next]_vars /\ Fairness

\* =================================================================== claims
Submitted == {credentials[i] : i \in 1..Len(credentials)}

Out(a) == frame[a].out

Stages(o) == [i \in 1..Len(o.errors) |-> o.errors[i].stage]

IsClaimCall(c) == c.op = "claim"
ClaimCalls(a) == SelectSeq(frame[a].calls, IsClaimCall)

\* C1: when the report is written it holds exactly one outcome per input
\* account, the outcome that account's pipeline returned; it is written once,
\* and only after every outcome was collected.
C1_ReportComplete ==
    /\ writes <= 1
    /\ (mainpc = "done") = (writes = 1)
    /\ writes = 1 =>
         /\ report = results
         /\ Len(report) = Len(credentials)
         /\ \A a \in Submitted :
              /\ frame[a].pc = "done"
              /\ Cardinality({k \in 1..Len(report) : report[k].phone = a}) = 1
              /\ \E k \in 1..Len(report) : report[k] = Out(a)

C1_Witness ==
    /\ writes = 1
    /\ Len(report) = NumAccounts
    /\ \E k \in 1..Len(report) : report[k].errors # <<>>
    /\ \E k \in 1..Len(report) : report[k].errors = <<>>


\* The replies of the login and info calls, read back from the call log.
LoginCalled(a) == Len(frame[a].calls) >= 1
InfoCalled(a) == Len(frame[a].calls) >= 2
LoginCall(a) == frame[a].calls[1]
InfoCall(a) == frame[a].calls[2]

\* The decoded login body lacks the token, the token-type prefix or the member id.
LacksAuthField(body) ==
    \/ body.kind # "dict"
    \/ body.result # "dict"
    \/ body.token = None
    \/ body.tokenHead = None
    \/ body.sysUserId = None

\* The login stage failed in one of the three ways C2 names.
LoginFailedAsClaimed(a) ==
    /\ LoginCalled(a)
    /\ \/ LoginCall(a).status = 0
       \/ ~Is2xx(LoginCall(a).status)
       \/ LacksAuthField(Out(a).login_response)

\* C2: an account whose login call raised, returned a non-2xx status or
\* returned a body lacking a required field ends with no info-fetch fields, no
\* claim records, no claimed-tiers list and the one error record "login".
C2_LoginFailureOutcome ==
    \A a \in Accounts :
        frame[a].pc = "done" /\ LoginFailedAsClaimed(a) =>
            /\ Out(a).has \cap {"info_status_code", "info_response",
                                "claim_responses", "claimed_tiers"} = {}
            /\ Stages(Out(a)) = <<"login">>

\* What C3 promises of an account whose info stage failed.
InfoFailureOutcome(a) ==
    /\ ClaimCalls(a) = <<>>
    /\ Out(a).has \cap {"claim_responses", "claimed_tiers"} = {}
    /\ Stages(Out(a)) = <<"fetch_info">>

\* C3 as stated: once the info call raised or returned a non-2xx status, no
\* claim call is issued, there are no claim records and no claimed-tiers list,
\* and the errors are the one record "fetch_info".
C3_NonSuccessInfoStops ==
    \A a \in Accounts :
        InfoCalled(a) /\ (InfoCall(a).status = 0 \/ ~Is2xx(InfoCall(a).status))
            => InfoFailureOutcome(a)

\* C3 as amended: once the info call raised or returned a 4xx or 5xx status,
\* no claim call is issued, there are no claim records and no claimed-tiers
\* list, and the errors are the one record "fetch_info".
C3_InfoFailureStops ==
    \A a \in Accounts :
        InfoCalled(a) /\ (InfoCall(a).status = 0 \/ InfoCall(a).status >= 400)
            => InfoFailureOutcome(a)

C3_Witness ==
    \E a \in Accounts :
        /\ frame[a].pc = "done"
        /\ InfoCalled(a)
        /\ InfoCall(a).status = 404
        /\ Out(a).info_response.list = "list"
        /\ \E i \in 1..Len(Out(a).info_response.tiers) :
               Out(a).info_response.tiers[i].status = "complete"

\* The tiers of the fetched info response whose status is "complete".
FetchedTiers(a) ==
    IF "info_response" \in Out(a).has THEN Out(a).info_response.tiers ELSE <<>>
IsCompleteTier(t) == t.dict /\ t.status = "complete"
CompleteTiers(a) == SelectSeq(FetchedTiers(a), IsCompleteTier)
CompleteIds(a) == {CompleteTiers(a)[i].num : i \in 1..Len(CompleteTiers(a))}

\* C4: in every state, every tier id in the claimed tiers and in a claim
\* record is the id of a fetched tier with status "complete", and claim calls
\* are issued for such tiers only, at most one per complete tier.
C4_OnlyCompleteTiersClaimed ==
    \A a \in Accounts :
        /\ \A i \in 1..Len(Out(a).claimed_tiers) :
               Out(a).claimed_tiers[i] \in CompleteIds(a)
        /\ \A i \in 1..Len(frame[a].completed) :
               frame[a].completed[i] \in CompleteIds(a)
        /\ \A i \in 1..Len(Out(a).claim_responses) :
               Out(a).claim_responses[i].tier \in CompleteIds(a)
        /\ \A i \in 1..Len(ClaimCalls(a)) : ClaimCalls(a)[i].tier \in CompleteIds(a)
        /\ Len(ClaimCalls(a)) <= Len(CompleteTiers(a))

C4_Witness ==
    \E a \in Accounts :
        /\ frame[a].pc = "done"
        /\ FetchedTiers(a) = <<Tier("pending", 1), Tier("complete", 2)>>
        /\ Out(a).claimed_tiers = <<2>>
        /\ Len(ClaimCalls(a)) = 1


\* A claim call that failed: post raised, or the status is not 2xx.
CallFailed(c) == c.status = 0 \/ ~Is2xx(c.status)

\* Every element of the fetched tier list is a JSON object.
WellFormedTiers(a) == \A i \in 1..Len(FetchedTiers(a)) : FetchedTiers(a)[i].dict

\* C5: when the claim of eligible tier X failed (non-2xx or raised, X at any
\* position), every eligible tier listed after X is still attempted, the
\* outcome holds an error record of stage "claim_X", and a later tier whose
\* call succeeded is in the claimed-tiers list.
C5_FailedClaimIsolated ==
    \A a \in Accounts :
        frame[a].pc = "done" /\ WellFormedTiers(a) =>
            \A x \in 1..Len(ClaimCalls(a)) :
                CallFailed(ClaimCalls(a)[x]) =>
                    /\ Len(ClaimCalls(a)) = Len(CompleteTiers(a))
                    /\ \E i \in 1..Len(Out(a).errors) :
                           Out(a).errors[i].stage = ClaimStage(ClaimCalls(a)[x].tier)
                    /\ \A y \in (x + 1)..Len(ClaimCalls(a)) :
                           ~CallFailed(ClaimCalls(a)[y]) =>
                               /\ "claimed_tiers" \in Out(a).has
                               /\ \E k \in 1..Len(Out(a).claimed_tiers) :
                                      Out(a).claimed_tiers[k] = ClaimCalls(a)[y].tier

\* C6: a 2xx login reply whose decoded body lacks the token, the token-type
\* prefix or the member id is a login failure: the one error record "login",
\* the outcome returned, and no call after the login call.
C6_MissingFieldFailsLogin ==
    \A a \in Accounts :
        /\ LoginCalled(a)
        /\ Is2xx(LoginCall(a).status)
        /\ LacksAuthField(Out(a).login_response)
        => /\ frame[a].pc = "done"
           /\ Stages(Out(a)) = <<"login">>
           /\ Len(frame[a].calls) = 1

\* C7: the calls of one account come in stage order: the login call is the
\* first call and the only login call; the info call is the second call, made
\* once and with the session authorized by the login stage; claim calls come
\* after an info stage that did not fail; after a failed stage nothing is
\* called.
C7_StagesInOrder ==
    \A a \in Accounts :
        LET cs == frame[a].calls
            st == {Out(a).errors[i].stage : i \in 1..Len(Out(a).errors)}
        IN  /\ frame[a].pc \notin {"idle", "login"} => Len(cs) >= 1
            /\ \A i \in 1..Len(cs) :
                 /\ (cs[i].op = "login") = (i = 1)
                 /\ (cs[i].op = "info") = (i = 2)
                 /\ cs[i].op = "info" =>
                        "login" \notin st /\ cs[i].Authorization # None
                 /\ cs[i].op \in {"claim", "sleep"} =>
                        /\ i > 2
                        /\ {"login", "fetch_info"} \cap st = {}
                        /\ ~RaisesForStatus(cs[2].status) /\ cs[2].status # 0
            /\ "login" \in st => Len(cs) = 1 /\ frame[a].pc = "done"
            /\ "fetch_info" \in st => Len(cs) = 2 /\ frame[a].pc = "done"
            /\ "claim_loop" \in st => frame[a].pc = "done"

C7_Witness ==
    \E a \in Accounts :
        /\ frame[a].pc = "done"
        /\ [i \in 1..Len(frame[a].calls) |-> frame[a].calls[i].op]
              = <<"login", "info", "claim", "sleep", "claim", "sleep">>

RECURSIVE IsSubseq(_, _)
IsSubseq(s, t) ==
    IF s = <<>> THEN TRUE
    ELSE IF t = <<>> THEN FALSE
    ELSE IF Head(s) = Head(t) THEN IsSubseq(Tail(s), Tail(t))
    ELSE IsSubseq(s, Tail(t))

IsPrefix(s, t) == Len(s) <= Len(t) /\ \A i \in 1..Len(s) : s[i] = t[i]

CompleteIdSeq(a) == [i \in 1..Len(CompleteTiers(a)) |-> CompleteTiers(a)[i].num]

\* C8: the tier ids of the claim calls are, in order, the ids of the first
\* "complete" tiers of the fetched list, and the tier ids of the claim records
\* and of the claimed tiers are subsequences of the "complete" tiers in the
\* order the service listed them.
C8_ServiceOrder ==
    \A a \in Accounts :
        /\ IsPrefix([i \in 1..Len(ClaimCalls(a)) |-> ClaimCalls(a)[i].tier],
                    CompleteIdSeq(a))
        /\ IsSubseq([i \in 1..Len(Out(a).claim_responses) |->
                        Out(a).claim_responses[i].tier], CompleteIdSeq(a))
        /\ IsSubseq(frame[a].completed, CompleteIdSeq(a))
        /\ IsSubseq(Out(a).claimed_tiers, CompleteIdSeq(a))

C8_Witness ==
    \E a \in Accounts :
        /\ frame[a].pc = "done"
        /\ FetchedTiers(a) = <<Tier("complete", 2), Tier("complete", 1)>>
        /\ Out(a).claimed_tiers = <<2, 1>>


\* --- C9
StageSet(a) == {Out(a).errors[i].stage : i \in 1..Len(Out(a).errors)}

\* The body of some reply of the account could not be decoded.
UndecodableBody(a) ==
    \/ "login_response" \in Out(a).has /\ Out(a).login_response.raw # None
    \/ "info_response" \in Out(a).has /\ Out(a).info_response.raw # None
    \/ \E i \in 1..Len(Out(a).claim_responses) : Out(a).claim_responses[i].response.raw # None

\* The tier list of the fetched info response is not a list of JSON objects.
MalformedTierList(a) ==
    /\ "info_response" \in Out(a).has
    /\ LET info == Out(a).info_response
       IN  \/ info.kind # "dict"
           \/ info.result = "nondict"
           \/ info.list = "null"
           \/ \E i \in 1..Len(info.tiers) : ~info.tiers[i].dict

\* Neither login_and_claim nor main was left by an exception, a run that has
\* not written its report can take a step, and a written report holds the
\* outcome of every account.
NothingPropagates ==
    /\ \A a \in Accounts : frame[a].pc # "raised"
    /\ mainpc # "crashed"
    /\ mainpc # "done" => ENABLED Next
    /\ mainpc = "done" =>
           \A a \in Accounts :
               frame[a].pc = "done" /\ \E k \in 1..Len(report) : report[k] = Out(a)

Running == {a \in Accounts : frame[a].pc \in {"login", "info", "claim", "sleep"}}

\* C10: at every moment at most MaxWorkers pipelines have started and not
\* finished, each of them run by exactly one worker thread, and a worker
\* leaves the account it runs only when that account's pipeline has finished.
C10_PoolBoundsConcurrency ==
    /\ [](/\ Cardinality(Running) <= MaxWorkers
          /\ \A a \in Running : Cardinality({w \in Workers : worker[w] = a}) = 1
          /\ \A w \in Workers : worker[w] # 0 => worker[w] \in Running)
    /\ [][\A w \in Workers :
             worker[w] # 0 /\ worker'[w] # worker[w] =>
                 /\ Left(frame'[worker[w]])
                 /\ worker'[w] = 0]_vars
    /\ [][\A a \in Accounts :
             frame'[a] # frame[a] =>
                 \E w \in Workers :
                     /\ worker[w] = a \/ (worker[w] = 0 /\ worker'[w] = a)
                     /\ \A b \in Accounts \ {a} : frame'[b] = frame[b]]_vars

\* The pool is full, and one of its threads runs an account that had to wait
\* in the queue until another account's pipeline had finished.
C10_Witness ==
    /\ Cardinality(Running) = MaxWorkers
    /\ Len(credentials) > MaxWorkers
    /\ \E a \in Accounts : frame[a].pc = "done"
    /\ \E a \in Running : a > MaxWorkers /\ frame[a].pc = "claim"


\* --- C11
\* The accounts of the outcomes collected so far, in the order of results.
Collected == [k \in 1..Len(results) |-> results[k].phone]

\* The place of x in the sequence s, 0 when it is not in it.
Place(s, x) == IF \E i \in 1..Len(s) : s[i] = x
               THEN CHOOSE i \in 1..Len(s) : s[i] = x ELSE 0

\* C11 as stated: of two collected accounts, the one whose pipeline finished
\* first comes first in results.
C11_CompletionOrder ==
    \A i, j \in 1..Len(completion) :
        /\ i < j
        /\ Place(Collected, completion[i]) # 0
        /\ Place(Collected, completion[j]) # 0
        => Place(Collected, completion[i]) < Place(Collected, completion[j])

\* C11 as amended: an outcome collected when no future found finished at the
\* entry of as_completed is left to yield belongs to the account that finished
\* first among those not collected yet: every account that finished before it
\* is in results already. (The futures found finished at the entry of
\* as_completed come first, in any order.)
C11_CompletionOrderAfterEntry ==
    [][\A a \in Accounts :
          /\ Len(results') = Len(results) + 1
          /\ results'[Len(results')].phone = a
          /\ early = {}
          => \A i \in 1..Len(completion) :
                 i < Place(completion, a) => Place(Collected, completion[i]) # 0]_vars

C11_Witness ==
    /\ mainpc = "done"
    /\ Len(report) = NumAccounts
    /\ [k \in 1..Len(report) |-> report[k].phone] = completion
    /\ completion # credentials
    /\ early = {}

\* ---------------------------------------------------------------- C12
\* The headers a call of account a must carry once a has logged in: those made
\* of the token, token-type prefix and member id of a's own login response.
OwnHeaders(a) ==
    LET lr == Out(a).login_response
    IN  [Authorization |-> lr.tokenHead \o " " \o lr.token,
         memberInfoId |-> Str(lr.sysUserId)]

CarriesOwnHeaders(a, c) ==
    /\ "login_response" \in Out(a).has
    /\ ~RaisesForStatus(Out(a).login_status_code)
    /\ ~Falsy(Out(a).login_response.token)
    /\ c.Authorization = OwnHeaders(a).Authorization
    /\ c.memberInfoId = OwnHeaders(a).memberInfoId

\* C12: sessions are never shared between accounts. Under every interleaving
\* of the pipelines, each info call and claim call of account a carries the
\* authorization and member-id headers made from a's own successful login
\* response, the login call of a carries no authorization header, each
\* session keeps the sales id of the configuration, and the shared run
\* configuration is never modified.
C12_SessionsNotShared ==
    /\ cfg = Config
    /\ \A a \in Accounts :
         /\ frame[a].sess.salesPersonId = cfg.sales_id
         /\ \A k \in 1..Len(frame[a].calls) :
              LET c == frame[a].calls[k]
              IN  /\ c.op = "login" =>
                        c.Authorization = None /\ c.memberInfoId = None
                  /\ c.op \in {"info", "claim"} => CarriesOwnHeaders(a, c)

\* Two accounts run at the same time, each has issued a claim call, and
\* their logins gave different tokens.
C12_Witness ==
    \E a, b \in Accounts :
        /\ a # b
        /\ \E w, v \in Workers : worker[w] = a /\ worker[v] = b
        /\ frame[a].pc \in {"claim", "sleep"} /\ frame[b].pc \in {"claim", "sleep"}
        /\ ClaimCalls(a) # <<>> /\ ClaimCalls(b) # <<>>
        /\ Out(a).login_response.token # Out(b).login_response.token
        /\ ClaimCalls(a)[1].Authorization # ClaimCalls(b)[1].Authorization

\* ---------------------------------------------------------------- C13
\* v is what the decoder owes for the response resp: the decoded value of a
\* JSON body, else a dict carrying the body text under "_raw".
DecodedAs(resp, v) ==
    IF resp.json THEN v = resp.value
    ELSE v.kind = "dict" /\ v.raw = resp.text /\ v.raw # None

\* What the outcome of a holds as the decoding of the local r.
DecodedR(a) ==
    IF "info_response" \in Out(a).has THEN Out(a).info_response
    ELSE Out(a).login_response

\* C13: the response decoder is total. For a response whose body is not valid
\* JSON it raises nothing and returns a fallback structure with the raw body
\* text under "_raw"; for a body that is valid JSON it returns the decoded
\* value. (Checked on every decoding the pipeline stores next to the response
\* it decoded: r of stages 1 and 2, rr of stage 3.)
C13_DecoderTotal ==
    \A a \in Accounts :
        /\ frame[a].pc # "raised"
        /\ "login_response" \in Out(a).has => DecodedAs(frame[a].r, DecodedR(a))
        /\ frame[a].rr_bound =>
               DecodedAs(frame[a].rr,
                         Out(a).claim_responses[Len(Out(a).claim_responses)].response)
        /\ /\ "info_response" \in Out(a).has
           /\ ~frame[a].r.json
           /\ ~RaisesForStatus(frame[a].r.status)
           => Out(a).errors = <<>>

\* A JSON login body was decoded to its value and the info body, no JSON,
\* became the fallback carrying its text.
C13_Witness ==
    \E a \in Accounts :
        /\ Out(a).login_response.token = "tk"
        /\ "info_response" \in Out(a).has
        /\ Out(a).info_response.raw = HtmlText
        /\ frame[a].pc = "done"

\* ---------------------------------------------------------------- C14
\* The claim calls of a that returned a response (post did not raise).
Returned(c) == c.op = "claim" /\ c.status # 0
ReturnedClaimCalls(a) == SelectSeq(frame[a].calls, Returned)

\* C14 (as claimed): in the terminal outcome the number of claim attempt
\* records equals the number of claim calls issued, whether a call succeeded,
\* returned a non-2xx status or raised.
C14_RecordPerClaimCall ==
    \A a \in Accounts :
        frame[a].pc = "done" => Len(Out(a).claim_responses) = Len(ClaimCalls(a))

\* C14 (amended): exactly one claim attempt record (tier id, status code,
\* decoded body) is appended for each claim call that returned a response,
\* whatever its status, and none for a claim call that raised: at any time
\* the claim attempt records are, in order, the returned claim calls.
C14_RecordPerReturnedCall ==
    \A a \in Accounts :
        LET recs == Out(a).claim_responses
            rets == ReturnedClaimCalls(a)
        IN  /\ Len(recs) = Len(rets)
            /\ \A i \in 1..Len(recs) :
                   recs[i].tier = rets[i].tier /\ recs[i].status_code = rets[i].status
            /\ ("claim_responses" \in Out(a).has) = (recs # <<>>)
            /\ frame[a].rr_bound =>
                   /\ recs # <<>>
                   /\ recs[Len(recs)].response = safe_json(frame[a].rr)

\* A terminal outcome after two claim calls: the first returned 404 and has
\* its record, the second raised and has none.
C14_Witness ==
    \E a \in Accounts :
        /\ frame[a].pc = "done"
        /\ Len(ClaimCalls(a)) = 2
        /\ ClaimCalls(a)[1].status = 404
        /\ ClaimCalls(a)[2].status = 0
        /\ Len(Out(a).claim_responses) = 1
        /\ Out(a).claim_responses[1].status_code = 404

\* ---------------------------------------------------------------- C15
\* The info stage of a did not fail.
InfoSucceeded(a) ==
    /\ "info_response" \in Out(a).has
    /\ ~RaisesForStatus(Out(a).info_status_code)

\* C15: a failure while building or iterating the tier list (a malformed info
\* body, a malformed element in the list) is caught and recorded as an
\* ErrorRecord of stage "claim_loop", the last of the outcome, and the claim
\* attempt records appended before it stay in the outcome unchanged: no step
\* removes or alters a claim attempt record, and the step that records the
\* failure leaves them as they were.
C15_LoopFailureKeepsRecords ==
    /\ [](\A a \in Accounts :
            frame[a].pc = "done" /\ InfoSucceeded(a) /\ MalformedTierList(a) =>
                /\ Stages(Out(a)) = <<"claim_loop">>
                   \/ /\ Len(Stages(Out(a))) > 1
                      /\ Stages(Out(a))[Len(Stages(Out(a)))] = "claim_loop"
                /\ Len(Out(a).claim_responses) = Len(ReturnedClaimCalls(a)))
    /\ [][\A a \in Accounts :
            /\ IsPrefix(Out(a).claim_responses, Out(a).claim_responses')
            /\ "claim_loop" \in StageSet(a)' /\ "claim_loop" \notin StageSet(a) =>
                   /\ Out(a).claim_responses' = Out(a).claim_responses
                   /\ ("claim_responses" \in Out(a).has')
                          = ("claim_responses" \in Out(a).has)
                   /\ frame[a].pc' = "done"]_vars

\* The list is a complete tier followed by an element that is no object: the
\* first was claimed and recorded, then the loop failed, and the record is
\* in the terminal outcome.
C15_Witness ==
    \E a \in Accounts :
        /\ frame[a].pc = "done"
        /\ Len(FetchedTiers(a)) = 2
        /\ IsCompleteTier(FetchedTiers(a)[1])
        /\ ~FetchedTiers(a)[2].dict
        /\ Stages(Out(a)) = <<"claim_loop">>
        /\ Len(Out(a).claim_responses) = 1
        /\ Out(a).claim_responses[1].tier = FetchedTiers(a)[1].num
        /\ Out(a).errors[1].error = "AttributeError"

\* ---------------------------------------------------------------- C16
\* The decoded info body is an object that carries no tier list: the result
\* object is absent, or the tier-list field is absent, or the list is empty.
NoTierList(info) ==
    /\ info.kind = "dict"
    /\ \/ info.result = "absent"
       \/ /\ info.result = "dict"
          /\ \/ info.list = "absent"
             \/ info.list = "list" /\ info.tiers = <<>>

\* C16: when the info fetch succeeded with a 2xx status and the decoded body
\* carries no tier list, the account has zero tiers and no error: no claim
\* call is issued, the terminal outcome has a claimed-tiers list that is
\* empty, no claim records, and an empty error list.
C16_NoTiersIsNoError ==
    \A a \in Accounts :
        /\ "info_response" \in Out(a).has
        /\ Is2xx(Out(a).info_status_code)
        /\ NoTierList(Out(a).info_response)
        => /\ frame[a].pc = "done"
           /\ ClaimCalls(a) = <<>>
           /\ "claimed_tiers" \in Out(a).has
           /\ Out(a).claimed_tiers = <<>>
           /\ "claim_responses" \notin Out(a).has
           /\ Out(a).errors = <<>>

\* The info call was answered 200 with an object that has a result without
\* the tier-list field, and the pipeline has returned.
C16_Witness ==
    \E a \in Accounts :
        /\ frame[a].pc = "done"
        /\ InfoCalled(a) /\ InfoCall(a).status = 200
        /\ Out(a).info_response = InfoNoList
        /\ "claimed_tiers" \in Out(a).has
        /\ Len(frame[a].calls) = 2

\* ---------------------------------------------------------------- C17
\* The accounts of SpecErr and SpecLive.
LiveAccounts == {1, 2}

Started(a) == frame[a].pc \in {"login", "info", "claim", "sleep"}
CollectedOutcome(a) == \E k \in 1..Len(results) : results[k] = frame[a].out

\* C17: when every HTTP call returns or raises and the threads are scheduled
\* fairly, the pipeline of every account, from whichever stage it is in
\* (login, info, claim, pause), eventually is done with a terminal outcome,
\* every outcome is eventually collected, and the run eventually writes the
\* report; no pipeline blocks or loops forever.
C17_RunTerminates ==
    /\ \A a \in LiveAccounts : Started(a) ~> (frame[a].pc = "done")
    /\ \A a \in LiveAccounts : <>[](frame[a].pc = "done" /\ CollectedOutcome(a))
    /\ <>[](mainpc = "done" /\ writes = 1 /\ Len(report) = Len(credentials))

\* The report is written; one account went through two claim calls and a
\* pause after each, the other stopped at a failed login.
C17_Witness ==
    /\ mainpc = "done" /\ writes = 1 /\ Len(report) = 2
    /\ \E a, b \in LiveAccounts :
         /\ a # b
         /\ frame[a].pc = "done" /\ Len(ClaimCalls(a)) = 2
         /\ frame[a].calls[Len(frame[a].calls)].op = "sleep"
         /\ frame[b].pc = "done" /\ Stages(Out(b)) = <<"login">>

\* ---------------------------------------------------------------- C18
\* C18: after a claim call, succeeded or failed, the pipeline pauses before
\* it issues the next tier's claim call, so no two claim calls of an account
\* follow each other without a pause between them; and every pause follows
\* the claim call of that same tier, so there is no pause for a tier whose
\* status is not "complete".
C18_PauseBetweenClaims ==
    \A a \in Accounts :
        LET cs == frame[a].calls
        IN  \A k \in 1..Len(cs) :
                /\ cs[k].op = "claim" /\ k < Len(cs) =>
                       cs[k + 1].op = "sleep" /\ cs[k + 1].tier = cs[k].tier
                /\ cs[k].op = "sleep" =>
                       /\ k > 1
                       /\ cs[k - 1].op = "claim"
                       /\ cs[k - 1].tier = cs[k].tier
                       /\ cs[k].tier \in CompleteIds(a)

\* A pending tier, then a complete one whose claim got 404: after login and
\* info there is that one claim call and one pause, and the loop is over.
C18_PendingNotPaused ==
    \E a \in Accounts :
        /\ frame[a].pc = "done"
        /\ Len(FetchedTiers(a)) = 2
        /\ FetchedTiers(a)[1].dict /\ FetchedTiers(a)[1].status = "pending"
        /\ IsCompleteTier(FetchedTiers(a)[2])
        /\ Len(frame[a].calls) = 4
        /\ frame[a].calls[3].op = "claim" /\ frame[a].calls[3].status = 404
        /\ frame[a].calls[4].op = "sleep"

\* Two claim calls with the pause between them, after a failed first claim.
C18_Witness ==
    \E a \in Accounts :
        /\ Len(frame[a].calls) >= 5
        /\ frame[a].calls[3].op = "claim" /\ frame[a].calls[3].status = 404
        /\ frame[a].calls[4].op = "sleep"
        /\ frame[a].calls[5].op = "claim"

\* ---------------------------------------------------------------- C19
\* The tier ids of the claim attempt records of a whose status is 2xx.
Is2xxRecord(rec) == Is2xx(rec.status_code)
SucceededIds(a) ==
    LET ok == SelectSeq(Out(a).claim_responses, Is2xxRecord)
    IN  [i \in 1..Len(ok) |-> ok[i].tier]

\* C19: in every terminal outcome of an account that reached the claim stage
\* (its info stage did not fail), the claimed-tiers list is present and is
\* exactly the sequence of tier ids of the claim attempt records with a 2xx
\* status, also when the loop ended in a "claim_loop" failure.
C19_ClaimedTiersReported ==
    \A a \in Accounts :
        frame[a].pc = "done" /\ InfoSucceeded(a) =>
            /\ "claimed_tiers" \in Out(a).has
            /\ Out(a).claimed_tiers = SucceededIds(a)

\* ---------------------------------------------------------------- C20
\* The error records of a that carry a response.
ClaimErrors(a) ==
    {i \in 1..Len(Out(a).errors) : Out(a).errors[i].has_response}

\* C20: the response stored in an ErrorRecord of stage "claim_T" is the
\* response of T's own claim call: that call returned, and the response is
\* the one recorded for T; an ErrorRecord of a claim call that raised before
\* any response existed carries no response of an earlier tier.
C20_ErrorCarriesOwnResponse ==
    \A a \in Accounts :
        \A i \in ClaimErrors(a) :
            LET e == Out(a).errors[i]
            IN  /\ \E k \in 1..Len(ReturnedClaimCalls(a)) :
                       ClaimStage(ReturnedClaimCalls(a)[k].tier) = e.stage
                /\ \E k \in 1..Len(Out(a).claim_responses) :
                       /\ ClaimStage(Out(a).claim_responses[k].tier) = e.stage
                       /\ Out(a).claim_responses[k].response = e.response

====
